---- MODULE Spec2Model ----
(***************************************************************************)
(* Model of heartbeat-collector (src/main.go).  The file holds two         *)
(* versions of the service:                                                *)
(*   "hb"    PUT /hb/{secret} (handlePutHeartbeat) on the internal         *)
(*           listener and GET /hb/{secret} (handleGetHeartbeat) on the     *)
(*           external one; the expiry instant is supplied in the body.     *)
(*   "query" GET /{id} (handleHeartbeat): with an expiry or label query    *)
(*           parameter it stores now + expiry seconds, without it reads.   *)
(* Each request is served by its own goroutine; the goroutines share the   *)
(* heartbeats table, and every db.Exec / db.QueryRow is one atomic         *)
(* statement of the store.                                                 *)
(* Spec is the service up and serving; RunSpec is the life of the process: *)
(* run from sql.Open to its return, the signal and shutdown goroutines of  *)
(* the query version, the process stopped and started again on the same    *)
(* database file; RunLive adds the scheduling of run's goroutines.         *)
(***************************************************************************)
EXTENDS Integers, Sequences, FiniteSets, TLC

\* ---------------------------------------------------------------- bounds
TicksPerSec == 2        \* clock resolution: instants are counted in ticks
MaxTime == 2            \* last tick the clock reaches
MaxWrites == 2          \* committed registrations in one behaviour
MaxBoots == 2           \* starts of the process in one behaviour

\* ------------------------------------------------------- program constants
StatusOK == 200
StatusNoContent == 204
StatusBadRequest == 400
StatusNotFound == 404
StatusInternalServerError == 500

\* ------------------------------------------------------------ input sets
Procs == {1, 2}                  \* request goroutines
Ids == {"a", "b"}                \* non-empty identifiers
Labels == {"", "x"}
Offsets == {0, 60}               \* zone offsets of an instant, in seconds
MetaKeys == <<"k1", "k2">>       \* metadata keys, in byte order

\* --------------------------------------------------------------- time.Time
\* An instant t in ticks since the zero instant, shown at zone offset off.
Time(t, off) == [t |-> t, off |-> off]
ZeroTime == Time(0, 0)
IsZero(x) == x.t = 0

\* a comparison that also takes the expiry instant itself as past
AfterOrEqual(x, y) == x.t >= y.t

\* a comparison that takes every instant but the expiry itself as past
NotEqual(x, y) == x.t # y.t

\* Time.After: strictly later
After(x, y) == x.t > y.t

\* time.Duration(n) * time.Second, and Time.Add
Seconds(n) == n * TicksPerSec
Add(x, d) == Time(x.t + d, x.off)

\* a Format that rounds the fraction of a second up instead of dropping it
FormatCeil(x) == [sec |-> ((x.t + TicksPerSec - 1) \div TicksPerSec) + x.off, zone |-> x.off]

\* Time.Format(time.RFC3339): the wall clock in whole seconds and the zone
\* offset; the layout has no fractional-second field.
Format(x) == [sec |-> (x.t \div TicksPerSec) + x.off, zone |-> x.off]

\* time.Parse(time.RFC3339, s)
Parse(s) == Time((s.sec - s.zone) * TicksPerSec, s.zone)

\* --------------------------------------------------------- map[string]string
\* A Go map is nil or a set of key/value pairs with distinct keys.
NilMap == [isNil |-> TRUE, kv |-> {}]
MakeMap(kv) == [isNil |-> FALSE, kv |-> kv]

RECURSIVE Members(_, _)
\* the members of a JSON object, keys in sorted order (encoding/json sorts)
Members(kv, i) ==
    IF i > Len(MetaKeys) THEN <<>>
    ELSE LET here == {e \in kv : e[1] = MetaKeys[i]}
         IN  (IF here = {} THEN <<>> ELSE <<CHOOSE e \in here : TRUE>>)
             \o Members(kv, i + 1)

\* json.Marshal(hb.Metadata): a nil map encodes as null
Marshal(m) ==
    IF m.isNil THEN [null |-> TRUE, members |-> <<>>]
    ELSE [null |-> FALSE, members |-> Members(m.kv, 1)]

\* json.Unmarshal([]byte(metadataJSON), &metadata) into a nil map variable
Unmarshal(j) ==
    IF j.null THEN NilMap
    ELSE MakeMap({j.members[i] : i \in 1..Len(j.members)})

\* ------------------------------------------------------------ strconv.Atoi
DigitVal(c) == CASE c = "0" -> 0 [] c = "1" -> 1 [] c = "2" -> 2 [] OTHER -> -1

RECURSIVE AtoiDigits(_, _)
AtoiDigits(s, acc) ==
    IF s = <<>> THEN [val |-> acc, err |-> FALSE]
    ELSE IF DigitVal(Head(s)) < 0 THEN [val |-> 0, err |-> TRUE]
    ELSE AtoiDigits(Tail(s), acc * 10 + DigitVal(Head(s)))

\* the empty string and any non-digit give (0, error)
Atoi(s) == IF s = <<>> THEN [val |-> 0, err |-> TRUE] ELSE AtoiDigits(s, 0)

\* ------------------------------------------------------------- Heartbeat
\* type Heartbeat struct: the decoded PUT body, the record a registration
\* supplies, and the response of an evaluation.
Heartbeat(secret, expiry, label, metadata) ==
    [Secret |-> secret, Expiry |-> expiry, Label |-> label, Metadata |-> metadata]

\* var hb Heartbeat: the zero value
ZeroHeartbeat == Heartbeat("", ZeroTime, "", NilMap)

\* the instants, maps and bodies a client sends
TimeInputs(off) == {Time(t, off) : t \in 0..MaxTime}
MetadataInputs == {NilMap, MakeMap({<<"k1", "v1">>})}
BodyInputs(off) ==
    {Heartbeat(s, e, l, m) : s \in Ids \cup {""}, e \in TimeInputs(off),
                             l \in Labels, m \in MetadataInputs}

\* PUT requests: the path names the body's secret, or (for the plainest
\* bodies) another identifier
PutRequests(off) ==
    {[path |-> b.Secret, body |-> b] : b \in BodyInputs(off)}
    \cup {[path |-> i, body |-> b] : i \in Ids,
                                     b \in {c \in BodyInputs(off) : c.Label = "" /\ c.Metadata = NilMap}}

\* query parameters of GET /{id}: absent, not a number, 0 and 1 second
ExpiryParams == {<<>>, <<"x">>, <<"0">>, <<"1">>}

\* ---------------------------------------------------- the heartbeats table
\* CREATE TABLE heartbeats (secret TEXT PRIMARY KEY, expiry DATETIME NOT NULL,
\* label TEXT, metadata TEXT): a set of rows.  The table of the query version
\* has no metadata column; its rows carry NoMetadata there.
Row(secret, expiry, label, metadata) ==
    [secret |-> secret, expiry |-> expiry, label |-> label, metadata |-> metadata]
NoMetadata == Marshal(NilMap)

\* the VALUES (?, ?, ?, ?) of a registration
PutValues(h) == Row(h.Secret, Format(h.Expiry), h.Label, Marshal(h.Metadata))
HbValues(h) == Row(h.Secret, Format(h.Expiry), h.Label, NoMetadata)

\* a SELECT without its WHERE clause
QueryRowAny(table, secret) == table

\* SELECT ... FROM heartbeats WHERE secret = ?
QueryRow(table, secret) == {r \in table : r.secret = secret}

\* an INSERT on a table without the primary key
InsertNoReplace(table, row) == table \cup {row}

\* INSERT OR IGNORE: the row already stored stays
InsertOrIgnore(table, row) ==
    IF QueryRow(table, row.secret) = {} THEN table \cup {row} ELSE table

\* an upsert that keeps the stored label when the new one is empty
InsertKeepLabel(table, row) ==
    LET old == QueryRow(table, row.secret)
        lab == IF row.label = "" /\ old # {}
               THEN (CHOOSE r \in old : TRUE).label ELSE row.label
    IN  (table \ old) \cup {[row EXCEPT !.label = lab]}

\* a statement that leaves the new row alone in the table
InsertReplacingAll(table, row) == {row}

\* INSERT OR REPLACE INTO heartbeats: the row with the same primary key, if
\* any, is deleted and the new row inserted, in one statement.
InsertOrReplace(table, row) ==
    (table \ QueryRow(table, row.secret)) \cup {row}

\* ------------------------------------------------------------------ state
VARIABLES
    variant,     \* which version of main.go runs: "hb" or "query"
    zone,        \* the zone offset the clients write their instants in
    now,         \* the server clock, in ticks
    heartbeats,  \* the table
    pc,          \* per goroutine: the handler step it is at
    path,        \* per goroutine: r.PathValue of the request
    hb,          \* per goroutine: the decoded body / the values to store
    wrote,       \* per goroutine: status already written to w, 0 if none
    scan,        \* per goroutine: the rows QueryRow found
    out,         \* the response on the wire, with what its handler saw
    regs,        \* history: per identifier, the last committed registration
    acked,       \* history: per identifier, a registration has been answered
    gh,          \* history, per goroutine: what held when its lookup ran
    boots,       \* history: how many times run has started
    tables,      \* the tables the database file holds
    runpc,       \* run: "exited" (no process), "wait" (in g.Wait / wg.Wait),
                 \* "returned" (run has returned, the process not yet gone)
    db,          \* the handle db: "open" or "closed"
    groupCtx,    \* "live" or "done"
    externalServer,  \* "new", "listening", "shutdown" or "failed"
    gpc,         \* the goroutines of run: where each is at
    gerr,        \* the errgroup's first error
    ret,         \* what run returned
    signalChannel    \* signals waiting in signalChannel (capacity 1)

\* the state of run and of what it starts
life == <<boots, tables, runpc, db, groupCtx, externalServer, gpc, gerr, ret, signalChannel>>

vars == <<variant, zone, now, heartbeats, pc, path, hb, wrote, scan, out, regs, acked, gh, life>>

\* k numbers the commits in the order the store took them; hb is what the
\* registration supplied, path the path it came on, valid whether its expiry
\* parameter was a number, old the label and metadata of the row it replaced,
\* dead whether an evaluation has since answered that its row has expired,
\* boot the start of run it was committed under
NoReg ==
    [k |-> 0, hb |-> ZeroHeartbeat, path |-> "", valid |-> TRUE, old |-> {},
     dead |-> FALSE, boot |-> 0]
\* of a lookup: must, a registration of the identifier had been answered;
\* k, the commits so far; sk, the commit number of the identifier's last
\* registration; dead, that registration had been answered as expired
NoGh == [must |-> FALSE, k |-> 0, sk |-> 0, dead |-> FALSE]
NoOut ==
    [op |-> "none", path |-> "", status |-> 0, msg |-> "", body |-> ZeroHeartbeat,
     at |-> 0, rows |-> {}, g |-> NoGh, dberr |-> FALSE]

Max(a, b) == IF a >= b THEN a ELSE b
Commits == Max(regs["a"].k, regs["b"].k)
InFlightWrites == Cardinality({p \in Procs : pc[p] \in {"put_exec", "hb_exec"}})

\* the goroutines of run while the service serves, and when there is none
Serving == [server |-> "serve", shutdown |-> "wait", signal |-> "select"]
NoGoroutines == [server |-> "none", shutdown |-> "none", signal |-> "none"]

\* the service up and serving on an empty table
Init ==
    /\ variant \in {"hb", "query"}
    /\ zone \in IF variant = "hb" THEN Offsets ELSE {0}
    /\ now = 1
    /\ heartbeats = {}
    /\ pc = [p \in Procs |-> "idle"]
    /\ path = [p \in Procs |-> ""]
    /\ hb = [p \in Procs |-> ZeroHeartbeat]
    /\ wrote = [p \in Procs |-> 0]
    /\ scan = [p \in Procs |-> {}]
    /\ out = NoOut
    /\ regs = [i \in Ids |-> NoReg]
    /\ acked = [i \in Ids |-> FALSE]
    /\ gh = [p \in Procs |-> NoGh]
    /\ boots = 1
    /\ tables = {"heartbeats"}
    /\ runpc = "wait"
    /\ db = "open"
    /\ groupCtx = "live"
    /\ externalServer = "listening"
    /\ gpc = Serving
    /\ gerr = "nil"
    /\ ret = "none"
    /\ signalChannel = 0

\* a clock whose advance sweeps the rows it leaves behind
TickSweep ==
    /\ out = NoOut
    /\ now < MaxTime
    /\ now' = now + 1
    /\ heartbeats' = {r \in heartbeats : ~After(Time(now + 1, 0), Parse(r.expiry))}
    /\ UNCHANGED <<variant, zone, pc, path, hb, wrote, scan, out, regs, acked, gh, life>>

\* the clock advances on its own
Tick ==
    /\ out = NoOut
    /\ now < MaxTime
    /\ now' = now + 1
    /\ UNCHANGED <<variant, zone, heartbeats, pc, path, hb, wrote, scan, out, regs, acked, gh, life>>

\* the client takes the response off the wire; the handlers' steps are
\* observed one response at a time
Receive ==
    /\ out # NoOut
    /\ out' = NoOut
    /\ UNCHANGED <<variant, zone, now, heartbeats, pc, path, hb, wrote, scan, regs, acked, gh, life>>

\* the goroutine returns from the handler: its locals are gone
Return(p) ==
    /\ pc' = [pc EXCEPT ![p] = "idle"]
    /\ path' = [path EXCEPT ![p] = ""]
    /\ hb' = [hb EXCEPT ![p] = ZeroHeartbeat]
    /\ wrote' = [wrote EXCEPT ![p] = 0]
    /\ scan' = [scan EXCEPT ![p] = {}]
    /\ gh' = [gh EXCEPT ![p] = NoGh]

\* http.Error(w, msg, code) and w.WriteHeader(code): the first status written
\* to w is the one sent; a later WriteHeader is dropped.
FirstStatus(p, code) == IF wrote[p] # 0 THEN wrote[p] ELSE code

FirstMsg(p, msg) ==
    IF wrote[p] # 0 THEN "expiry query parameter must be a valid integer" ELSE msg

\* the response leaves; at is the clock reading the handler decided on
Respond(p, op, pth, code, msg, body, at, rows, g, dberr) ==
    /\ out = NoOut
    /\ out' = [op |-> op, path |-> pth, status |-> FirstStatus(p, code),
               msg |-> FirstMsg(p, msg), body |-> body, at |-> at, rows |-> rows,
               g |-> g, dberr |-> dberr]

\* ------------------------------------------------ handlePutHeartbeat (PUT)
\* the checks without the one of the expiry
PutErrorNoExpiryCheck(decoded, body) ==
    IF ~decoded THEN "Invalid request body"
    ELSE IF body.Secret = "" THEN "Secret value is required"
    ELSE ""

\* The checks of the decoded body; "" when the body passes.
PutError(decoded, body) ==
    IF ~decoded THEN "Invalid request body"
    ELSE IF body.Secret = "" THEN "Secret value is required"
    ELSE IF IsZero(body.Expiry)
         THEN "Expiry date is required and must be RFC3339 compliant"
    ELSE ""

\* json.Decode of the body, the two checks, json.Marshal of the metadata
\* (which cannot fail for a map[string]string)
PutDecode(p, decoded, r) ==
    /\ variant = "hb"
    /\ out = NoOut
    /\ pc[p] = "idle"
    /\ IF PutError(decoded, r.body) # ""
       THEN /\ Respond(p, "put", r.path, StatusBadRequest, PutError(decoded, r.body),
                       ZeroHeartbeat, now, {}, NoGh, FALSE)
            /\ UNCHANGED <<pc, path, hb, wrote, scan, gh>>
       ELSE /\ Commits + InFlightWrites < MaxWrites
            /\ pc' = [pc EXCEPT ![p] = "put_exec"]
            /\ path' = [path EXCEPT ![p] = r.path]
            /\ hb' = [hb EXCEPT ![p] = r.body]
            /\ UNCHANGED <<wrote, scan, gh, out>>
    /\ UNCHANGED <<variant, zone, now, heartbeats, regs, acked, life>>

\* after db.Exec the handler reads hb no more: only whose it was is kept
Stored(h) == Heartbeat(h.Secret, ZeroTime, "", NilMap)

\* the history of a committed registration of h
Commit(p, h) ==
    [regs EXCEPT ![h.Secret] =
        [k |-> Commits + 1, hb |-> h, path |-> path[p], valid |-> wrote[p] = 0,
         old |-> {<<r.label, r.metadata>> : r \in QueryRow(heartbeats, h.Secret)},
         dead |-> FALSE, boot |-> boots]]

\* db.Exec(INSERT OR REPLACE ...): one statement, or a store error
PutExec(p, err) ==
    /\ out = NoOut
    /\ pc[p] = "put_exec"
    /\ IF err
       THEN /\ Respond(p, "put", path[p], StatusInternalServerError,
                       "Failed to store heartbeat", ZeroHeartbeat, now, {}, gh[p], TRUE)
            /\ Return(p)
            /\ UNCHANGED <<heartbeats, regs>>
       ELSE /\ heartbeats' = InsertOrReplace(heartbeats, PutValues(hb[p]))
            /\ regs' = Commit(p, hb[p])
            /\ pc' = [pc EXCEPT ![p] = "put_write"]
            /\ hb' = [hb EXCEPT ![p] = Stored(hb[p])]
            /\ UNCHANGED <<path, wrote, scan, out, gh>>
    /\ UNCHANGED <<variant, zone, now, acked, life>>

\* w.WriteHeader(http.StatusOK); w.Write("Heartbeat registered")
PutRespond(p) ==
    /\ pc[p] = "put_write"
    /\ Respond(p, "put", path[p], StatusOK, "Heartbeat registered", hb[p], now, {},
               gh[p], FALSE)
    /\ acked' = [acked EXCEPT ![hb[p].Secret] = TRUE]
    /\ Return(p)
    /\ UNCHANGED <<variant, zone, now, heartbeats, regs, life>>

\* ------------------------------------------------ handleGetHeartbeat (GET)
\* the body of the 404 answered when no row is found
NotFoundMessage == IF variant = "hb" THEN "Heartbeat not found" ELSE "heartbeat not found"

\* what held for the identifier when the lookup ran
Seen(secret) ==
    [must |-> acked[secret], k |-> Commits, sk |-> regs[secret].k,
     dead |-> regs[secret].dead]

\* the history of an evaluation that answered expired: the registration
\* whose row it read, when still the identifier's last, has been seen dead
Expired(p) ==
    IF regs[path[p]].k = gh[p].sk
    THEN [regs EXCEPT ![path[p]].dead = TRUE]
    ELSE regs

\* r.PathValue, the empty check, db.QueryRow(...).Scan
GetQuery(p, secret, err) ==
    /\ variant = "hb"
    /\ out = NoOut
    /\ pc[p] = "idle"
    /\ IF secret = ""
       THEN /\ Respond(p, "get", secret, StatusBadRequest, "Secret value is required",
                       ZeroHeartbeat, now, {}, NoGh, FALSE)
            /\ UNCHANGED <<pc, path, hb, wrote, scan, gh>>
       ELSE IF err
       THEN /\ Respond(p, "get", secret, StatusInternalServerError,
                       "Failed to query heartbeat", ZeroHeartbeat, now, {},
                       Seen(secret), TRUE)
            /\ UNCHANGED <<pc, path, hb, wrote, scan, gh>>
       ELSE IF QueryRow(heartbeats, secret) = {}
       THEN /\ Respond(p, "get", secret, StatusNotFound, NotFoundMessage,
                       ZeroHeartbeat, now, {}, Seen(secret), FALSE)
            /\ UNCHANGED <<pc, path, hb, wrote, scan, gh>>
       ELSE /\ pc' = [pc EXCEPT ![p] = "get_now"]
            /\ path' = [path EXCEPT ![p] = secret]
            /\ scan' = [scan EXCEPT ![p] = QueryRow(heartbeats, secret)]
            /\ gh' = [gh EXCEPT ![p] = Seen(secret)]
            /\ UNCHANGED <<hb, wrote, out>>
    /\ UNCHANGED <<variant, zone, now, heartbeats, regs, acked, life>>

\* the row Scan copied out
Scanned(p) == CHOOSE r \in scan[p] : TRUE

\* time.Parse (the stored text is always RFC3339), time.Now().After(expiry),
\* json.Unmarshal of the metadata, the response
GetRespond(p) ==
    /\ pc[p] = "get_now"
    /\ LET expiry == Parse(Scanned(p).expiry)
       IN  IF After(Time(now, 0), expiry)
           THEN /\ Respond(p, "get", path[p], StatusNotFound, "Heartbeat expired",
                           ZeroHeartbeat, now, scan[p], gh[p], FALSE)
                /\ regs' = Expired(p)
           ELSE /\ Respond(p, "get", path[p], StatusOK, "",
                           Heartbeat(path[p], expiry, Scanned(p).label,
                                     Unmarshal(Scanned(p).metadata)),
                           now, scan[p], gh[p], FALSE)
                /\ regs' = regs
    /\ Return(p)
    /\ UNCHANGED <<variant, zone, now, heartbeats, acked, life>>

\* ------------------------------------------------- handleHeartbeat (GET)
\* shouldStoreHeartbeat
ShouldStore(expiryParam, labelParam) == expiryParam # <<>> \/ labelParam # ""

\* time.Now().Add(time.Duration(expirySeconds) * time.Second)
ExpiryTime(expirySeconds) == Add(Time(now, 0), Seconds(expirySeconds))

\* The storing branch up to the statement: strconv.Atoi, the 400 written
\* when it fails (the handler does not return there and goes on with
\* expirySeconds = 0), the expiry computed from the clock.
HbStore(p, hbID, expiryParam, labelParam) ==
    /\ variant = "query"
    /\ out = NoOut
    /\ pc[p] = "idle"
    /\ hbID # ""
    /\ ShouldStore(expiryParam, labelParam)
    /\ Commits + InFlightWrites < MaxWrites
    /\ pc' = [pc EXCEPT ![p] = "hb_exec"]
    /\ path' = [path EXCEPT ![p] = hbID]
    /\ wrote' = [wrote EXCEPT ![p] =
                    IF Atoi(expiryParam).err THEN StatusBadRequest ELSE 0]
    /\ hb' = [hb EXCEPT ![p] =
                Heartbeat(hbID, ExpiryTime(Atoi(expiryParam).val), labelParam, NilMap)]
    /\ UNCHANGED <<variant, zone, now, heartbeats, scan, out, regs, acked, gh, life>>

\* db.Exec(INSERT OR REPLACE ...): one statement, or a store error
HbExec(p, err) ==
    /\ out = NoOut
    /\ pc[p] = "hb_exec"
    /\ IF err
       THEN /\ Respond(p, "store", path[p], StatusInternalServerError,
                       "failed to store heartbeat", ZeroHeartbeat, now, {}, gh[p], TRUE)
            /\ Return(p)
            /\ UNCHANGED <<heartbeats, regs>>
       ELSE /\ heartbeats' = InsertOrReplace(heartbeats, HbValues(hb[p]))
            /\ regs' = Commit(p, hb[p])
            /\ pc' = [pc EXCEPT ![p] = "hb_write"]
            /\ hb' = [hb EXCEPT ![p] = Stored(hb[p])]
            /\ UNCHANGED <<path, wrote, scan, out, gh>>
    /\ UNCHANGED <<variant, zone, now, acked, life>>

\* w.WriteHeader(http.StatusNoContent)
HbStored(p) ==
    /\ pc[p] = "hb_write"
    /\ Respond(p, "store", path[p], StatusNoContent, "", hb[p], now, {}, gh[p], FALSE)
    /\ acked' = [acked EXCEPT ![hb[p].Secret] = TRUE]
    /\ Return(p)
    /\ UNCHANGED <<variant, zone, now, heartbeats, regs, life>>

\* r.PathValue and the empty check; without query parameters,
\* db.QueryRow(...).Scan
HbQuery(p, hbID, err) ==
    /\ variant = "query"
    /\ out = NoOut
    /\ pc[p] = "idle"
    /\ IF hbID = ""
       THEN /\ Respond(p, "get", hbID, StatusBadRequest, "ID value is required",
                       ZeroHeartbeat, now, {}, NoGh, FALSE)
            /\ UNCHANGED <<pc, path, hb, wrote, scan, gh>>
       ELSE IF err
       THEN /\ Respond(p, "get", hbID, StatusInternalServerError,
                       "failed to query heartbeat", ZeroHeartbeat, now, {},
                       Seen(hbID), TRUE)
            /\ UNCHANGED <<pc, path, hb, wrote, scan, gh>>
       ELSE IF QueryRow(heartbeats, hbID) = {}
       THEN /\ Respond(p, "get", hbID, StatusNotFound, NotFoundMessage,
                       ZeroHeartbeat, now, {}, Seen(hbID), FALSE)
            /\ UNCHANGED <<pc, path, hb, wrote, scan, gh>>
       ELSE /\ pc' = [pc EXCEPT ![p] = "hb_now"]
            /\ path' = [path EXCEPT ![p] = hbID]
            /\ scan' = [scan EXCEPT ![p] = QueryRow(heartbeats, hbID)]
            /\ gh' = [gh EXCEPT ![p] = Seen(hbID)]
            /\ UNCHANGED <<hb, wrote, out>>
    /\ UNCHANGED <<variant, zone, now, heartbeats, regs, acked, life>>

\* time.Parse, time.Now().After(expiry), the response
HbRespond(p) ==
    /\ pc[p] = "hb_now"
    /\ LET expiry == Parse(Scanned(p).expiry)
       IN  IF After(Time(now, 0), expiry)
           THEN /\ Respond(p, "get", path[p], StatusNotFound, "heartbeat expired",
                           ZeroHeartbeat, now, scan[p], gh[p], FALSE)
                /\ regs' = Expired(p)
           ELSE /\ Respond(p, "get", path[p], StatusOK, "",
                           Heartbeat(path[p], expiry, Scanned(p).label, NilMap),
                           now, scan[p], gh[p], FALSE)
                /\ regs' = regs
    /\ Return(p)
    /\ UNCHANGED <<variant, zone, now, heartbeats, acked, life>>

Next ==
    \/ Tick
    \/ Receive
    \/ \E p \in Procs, decoded \in BOOLEAN, r \in PutRequests(zone) :
          PutDecode(p, decoded, r)
    \/ \E p \in Procs, err \in BOOLEAN : PutExec(p, err)
    \/ \E p \in Procs : PutRespond(p)
    \/ \E p \in Procs, secret \in Ids \cup {""}, err \in BOOLEAN : GetQuery(p, secret, err)
    \/ \E p \in Procs : GetRespond(p)
    \/ \E p \in Procs, hbID \in Ids, e \in ExpiryParams, l \in Labels :
          HbStore(p, hbID, e, l)
    \/ \E p \in Procs, err \in BOOLEAN : HbExec(p, err)
    \/ \E p \in Procs : HbStored(p)
    \/ \E p \in Procs, hbID \in Ids \cup {""}, err \in BOOLEAN : HbQuery(p, hbID, err)
    \/ \E p \in Procs : HbRespond(p)

Spec == Init /\ [][Next]_vars

\* ------------------------------------------------------------------- run
\* a statement that drops the table before creating it
CreateTableFresh(ts, rows) == {}

\* CREATE TABLE IF NOT EXISTS heartbeats: the rows of the table when the
\* database file holds it, an empty table when not
CreateTableIfNotExists(ts, rows) == IF "heartbeats" \in ts THEN rows ELSE {}

\* the process is gone: its goroutines and their requests with it
ProcessGone ==
    /\ runpc' = "exited"
    /\ db' = "closed"
    /\ groupCtx' = "live"
    /\ externalServer' = "new"
    /\ gpc' = NoGoroutines
    /\ gerr' = "nil"
    /\ ret' = "none"
    /\ signalChannel' = 0
    /\ pc' = [p \in Procs |-> "idle"]
    /\ path' = [p \in Procs |-> ""]
    /\ hb' = [p \in Procs |-> ZeroHeartbeat]
    /\ wrote' = [p \in Procs |-> 0]
    /\ scan' = [p \in Procs |-> {}]
    /\ gh' = [p \in Procs |-> NoGh]

\* run up to its wait: sql.Open, CREATE TABLE IF NOT EXISTS, and the
\* goroutines started.  When either statement fails run returns the error
\* and log.Fatal ends the process.  The PUT/GET version serves on its two
\* listeners from here on; the query version starts its server goroutine
\* (with the goroutine that waits to shut the server down) and its signal
\* goroutine.
Start(err) ==
    /\ out = NoOut
    /\ runpc = "exited"
    /\ boots < MaxBoots
    /\ boots' = boots + 1
    /\ IF err
       THEN UNCHANGED <<tables, heartbeats, runpc, db, groupCtx, externalServer,
                        gpc, gerr, ret, signalChannel>>
       ELSE /\ tables' = tables \cup {"heartbeats"}
            /\ heartbeats' = CreateTableIfNotExists(tables, heartbeats)
            /\ runpc' = "wait"
            /\ db' = "open"
            /\ groupCtx' = "live"
            /\ externalServer' = IF variant = "hb" THEN "listening" ELSE "new"
            /\ gpc' = IF variant = "hb"
                      THEN [NoGoroutines EXCEPT !.server = "serve"]
                      ELSE [server |-> "listen", shutdown |-> "wait", signal |-> "select"]
            /\ gerr' = "nil"
            /\ ret' = "none"
            /\ signalChannel' = 0
    /\ UNCHANGED <<variant, zone, now, pc, path, hb, wrote, scan, out, regs, acked, gh>>

\* externalServer.ListenAndServe as it begins: ErrServerClosed when Shutdown
\* has been called already (reported as no error), the listener's error when
\* it cannot listen (the errgroup keeps the first error and cancels
\* groupCtx), else the server listens
Listen(err) ==
    /\ runpc = "wait"
    /\ gpc.server = "listen"
    /\ IF externalServer = "shutdown"
       THEN /\ gpc' = [gpc EXCEPT !.server = "done"]
            /\ UNCHANGED <<externalServer, gerr, groupCtx>>
       ELSE IF err
       THEN /\ gpc' = [gpc EXCEPT !.server = "done"]
            /\ externalServer' = "failed"
            /\ gerr' = IF gerr = "nil" THEN "server error" ELSE gerr
            /\ groupCtx' = "done"
       ELSE /\ gpc' = [gpc EXCEPT !.server = "serve"]
            /\ externalServer' = "listening"
            /\ UNCHANGED <<gerr, groupCtx>>
    /\ UNCHANGED <<variant, zone, now, heartbeats, pc, path, hb, wrote, scan, out,
                   regs, acked, gh, boots, tables, runpc, db, ret, signalChannel>>

\* ListenAndServe returns ErrServerClosed as soon as Shutdown has been
\* called; the server goroutine returns nil
ServerClosed ==
    /\ runpc = "wait"
    /\ gpc.server = "serve"
    /\ externalServer = "shutdown"
    /\ gpc' = [gpc EXCEPT !.server = "done"]
    /\ UNCHANGED <<variant, zone, now, heartbeats, pc, path, hb, wrote, scan, out,
                   regs, acked, gh, boots, tables, runpc, db, groupCtx,
                   externalServer, gerr, ret, signalChannel>>

\* SIGINT or SIGTERM reaches the process of the query version: signal.Notify
\* puts it in signalChannel when there is room
Signal ==
    /\ out = NoOut
    /\ variant = "query"
    /\ runpc = "wait"
    /\ signalChannel = 0
    /\ signalChannel' = 1
    /\ UNCHANGED <<variant, zone, now, heartbeats, pc, path, hb, wrote, scan, out,
                   regs, acked, gh, boots, tables, runpc, db, groupCtx,
                   externalServer, gpc, gerr, ret>>

\* a signal goroutine that returns on the signal without exitApp()
SignalSelectNoExit(bySignal) ==
    /\ runpc = "wait"
    /\ gpc.signal = "select"
    /\ IF bySignal
       THEN /\ signalChannel = 1
            /\ signalChannel' = 0
            /\ gpc' = [gpc EXCEPT !.signal = "signalled"]
            /\ UNCHANGED <<gerr, groupCtx>>
       ELSE /\ groupCtx = "done"
            /\ gerr' = IF gerr = "nil" THEN "context canceled" ELSE gerr
            /\ gpc' = [gpc EXCEPT !.signal = "ended"]
            /\ UNCHANGED <<signalChannel, groupCtx>>
    /\ UNCHANGED <<variant, zone, now, heartbeats, pc, path, hb, wrote, scan, out,
                   regs, acked, gh, boots, tables, runpc, db, externalServer, ret>>

\* the select of the signal goroutine: a signal (exitApp() and return nil),
\* or groupCtx.Done() (return groupCtx.Err()); when both are ready, either
SignalSelect(bySignal) ==
    /\ runpc = "wait"
    /\ gpc.signal = "select"
    /\ IF bySignal
       THEN /\ signalChannel = 1
            /\ signalChannel' = 0
            /\ groupCtx' = "done"
            /\ gpc' = [gpc EXCEPT !.signal = "signalled"]
            /\ UNCHANGED gerr
       ELSE /\ groupCtx = "done"
            /\ gerr' = IF gerr = "nil" THEN "context canceled" ELSE gerr
            /\ gpc' = [gpc EXCEPT !.signal = "ended"]
            /\ UNCHANGED <<signalChannel, groupCtx>>
    /\ UNCHANGED <<variant, zone, now, heartbeats, pc, path, hb, wrote, scan, out,
                   regs, acked, gh, boots, tables, runpc, db, externalServer, ret>>

\* the goroutine started beside ListenAndServe: <-groupCtx.Done(), then
\* externalServer.Shutdown, which first closes the listener
Shutdown ==
    /\ runpc # "exited"
    /\ gpc.shutdown = "wait"
    /\ groupCtx = "done"
    /\ gpc' = [gpc EXCEPT !.shutdown = "shutting"]
    /\ externalServer' = IF externalServer = "failed" THEN "failed" ELSE "shutdown"
    /\ UNCHANGED <<variant, zone, now, heartbeats, pc, path, hb, wrote, scan, out,
                   regs, acked, gh, boots, tables, runpc, db, groupCtx, gerr, ret,
                   signalChannel>>

\* Shutdown returns once no request is being served
ShutdownDone ==
    /\ runpc # "exited"
    /\ gpc.shutdown = "shutting"
    /\ \A p \in Procs : pc[p] = "idle"
    /\ gpc' = [gpc EXCEPT !.shutdown = "done"]
    /\ UNCHANGED <<variant, zone, now, heartbeats, pc, path, hb, wrote, scan, out,
                   regs, acked, gh, boots, tables, runpc, db, groupCtx,
                   externalServer, gerr, ret, signalChannel>>

\* g.Wait() returns the first error once both goroutines of the group have
\* returned (and cancels groupCtx); run returns it, and its deferred calls
\* run: exitApp(), db.Close()
WaitReturn ==
    /\ variant = "query"
    /\ runpc = "wait"
    /\ gpc.server = "done"
    /\ gpc.signal \in {"signalled", "ended"}
    /\ runpc' = "returned"
    /\ ret' = gerr
    /\ groupCtx' = "done"
    /\ db' = "closed"
    /\ UNCHANGED <<variant, zone, now, heartbeats, pc, path, hb, wrote, scan, out,
                   regs, acked, gh, boots, tables, externalServer, gpc, gerr,
                   signalChannel>>

\* main returns (or log.Fatal exits) after run has returned
Exit ==
    /\ out = NoOut
    /\ runpc = "returned"
    /\ ProcessGone
    /\ UNCHANGED <<variant, zone, now, heartbeats, out, regs, acked, boots, tables>>

\* the process is killed while run waits (for the PUT/GET version, which
\* installs no handler, SIGINT and SIGTERM do this too, and so does the
\* log.Fatalf of a server that fails)
Kill ==
    /\ out = NoOut
    /\ runpc = "wait"
    /\ ProcessGone
    /\ UNCHANGED <<variant, zone, now, heartbeats, out, regs, acked, boots, tables>>

\* the server takes new requests; a statement on a closed handle fails
Accepting == runpc # "exited" /\ externalServer = "listening"
OnHandle(err) == db = "closed" => err

\* the requests of the lifecycle runs: one at a time, one identifier, plain
\* bodies
RunProcs == {1}
RunIds == {"a"}
RunPutRequests ==
    {r \in PutRequests(0) : r.path = "a" /\ r.body.Label = "" /\ r.body.Metadata = NilMap}

\* the process not yet started, on a database file without the table
RunInit ==
    /\ variant \in {"hb", "query"}
    /\ zone = 0
    /\ now = 1
    /\ heartbeats = {}
    /\ pc = [p \in Procs |-> "idle"]
    /\ path = [p \in Procs |-> ""]
    /\ hb = [p \in Procs |-> ZeroHeartbeat]
    /\ wrote = [p \in Procs |-> 0]
    /\ scan = [p \in Procs |-> {}]
    /\ out = NoOut
    /\ regs = [i \in Ids |-> NoReg]
    /\ acked = [i \in Ids |-> FALSE]
    /\ gh = [p \in Procs |-> NoGh]
    /\ boots = 0
    /\ tables = {}
    /\ runpc = "exited"
    /\ db = "closed"
    /\ groupCtx = "live"
    /\ externalServer = "new"
    /\ gpc = NoGoroutines
    /\ gerr = "nil"
    /\ ret = "none"
    /\ signalChannel = 0

RunNext ==
    \/ Tick
    \/ Receive
    \/ \E err \in BOOLEAN : Start(err)
    \/ \E err \in BOOLEAN : Listen(err)
    \/ ServerClosed
    \/ Signal
    \/ \E bySignal \in BOOLEAN : SignalSelect(bySignal)
    \/ Shutdown
    \/ ShutdownDone
    \/ WaitReturn
    \/ Exit
    \/ Kill
    \/ \E p \in RunProcs, decoded \in BOOLEAN, r \in RunPutRequests :
          Accepting /\ PutDecode(p, decoded, r)
    \/ \E p \in RunProcs, err \in BOOLEAN : OnHandle(err) /\ PutExec(p, err)
    \/ \E p \in RunProcs : PutRespond(p)
    \/ \E p \in RunProcs, secret \in RunIds, err \in BOOLEAN :
          Accepting /\ OnHandle(err) /\ GetQuery(p, secret, err)
    \/ \E p \in RunProcs : GetRespond(p)
    \/ \E p \in RunProcs, hbID \in RunIds, e \in ExpiryParams, l \in {""} :
          Accepting /\ HbStore(p, hbID, e, l)
    \/ \E p \in RunProcs, err \in BOOLEAN : OnHandle(err) /\ HbExec(p, err)
    \/ \E p \in RunProcs : HbStored(p)
    \/ \E p \in RunProcs, hbID \in RunIds, err \in BOOLEAN :
          Accepting /\ OnHandle(err) /\ HbQuery(p, hbID, err)
    \/ \E p \in RunProcs : HbRespond(p)

RunSpec == RunInit /\ [][RunNext]_vars

\* the scheduler runs a goroutine that can run, and a return that is ready
\* is taken
RunFair ==
    /\ WF_vars(\E err \in BOOLEAN : Listen(err))
    /\ WF_vars(ServerClosed)
    /\ WF_vars(\E bySignal \in BOOLEAN : SignalSelect(bySignal))
    /\ WF_vars(Shutdown)
    /\ WF_vars(WaitReturn)

RunLive == RunSpec /\ RunFair

\* ================================================================ claims
\* An evaluation is a response of handleGetHeartbeat or of the read branch
\* of handleHeartbeat.  It follows a registration with no registration in
\* between when the identifier's last registration at the lookup is still
\* its last; Reg is then that registration.
Evaluated == out.op = "get" /\ out.path \in Ids /\ ~out.dberr
Follows == out.g.sk > 0 /\ regs[out.path].k = out.g.sk
Reg == regs[out.path]
StoredRow(h) == IF variant = "hb" THEN PutValues(h) ELSE HbValues(h)

\* what an evaluation at clock reading at answers for an identifier whose
\* last registration is reg, by that registration alone
EvalOf(reg, at) ==
    IF reg.k = 0 THEN [status |-> StatusNotFound, body |-> ZeroHeartbeat]
    ELSE LET row == StoredRow(reg.hb)
         IN  IF at > Parse(row.expiry).t
             THEN [status |-> StatusNotFound, body |-> ZeroHeartbeat]
             ELSE [status |-> StatusOK,
                   body |-> Heartbeat(row.secret, Parse(row.expiry), row.label,
                                      Unmarshal(row.metadata))]

\* C1: an evaluation of an identifier that no registration has ever been
\* committed for answers 404 and returns no record, whatever else is stored
\* and whatever the clock reads (the lookup itself not failing).
C1_NeverRegisteredNotFound ==
    (Evaluated /\ out.g.sk = 0)
        => (out.status = StatusNotFound /\ out.body = ZeroHeartbeat)

C1_Witness ==
    /\ Evaluated /\ out.g.sk = 0 /\ out.status = StatusNotFound
    /\ \E i \in Ids : i # out.path /\ QueryRow(heartbeats, i) # {}

\* C2 (as claimed): in the PUT/GET version, an evaluation at a clock reading
\* not after the supplied expiry, with no registration in between, succeeds
\* and returns the supplied identifier, expiry instant, label and metadata.
C2_RoundTripExact ==
    (variant = "hb" /\ Evaluated /\ Follows /\ out.at <= Reg.hb.Expiry.t)
        => /\ out.status = StatusOK
           /\ out.body.Secret = Reg.hb.Secret
           /\ out.body.Expiry.t = Reg.hb.Expiry.t
           /\ out.body.Label = Reg.hb.Label
           /\ out.body.Metadata = Reg.hb.Metadata

\* C3 (as claimed): in the query version, a registration made at t with
\* expiry = n seconds is answered with its id and label by every evaluation
\* at a clock reading up to t + n seconds, with no registration in between.
C3_ValidForWholeWindow ==
    (variant = "query" /\ Evaluated /\ Follows /\ Reg.valid
        /\ out.at <= Reg.hb.Expiry.t)
        => /\ out.status = StatusOK
           /\ out.body.Secret = Reg.hb.Secret
           /\ out.body.Label = Reg.hb.Label

\* C4: an evaluation at a clock reading strictly after the expiry instant of
\* the registration it follows answers 404 and returns no record.
C4_ExpiredNotFound ==
    (Evaluated /\ Follows /\ out.at > Reg.hb.Expiry.t)
        => (out.status = StatusNotFound /\ out.body = ZeroHeartbeat)

C4_Witness ==
    /\ Evaluated /\ Follows /\ out.at > Reg.hb.Expiry.t
    /\ out.rows # {} /\ out.status = StatusNotFound

\* C5: after a re-registration, the row an evaluation reads is the row of
\* the second registration alone, and a successful evaluation returns the
\* second registration's label and metadata (empty when it gave none) and
\* its expiry instant, to the second.
C5_ReRegistrationReplaces ==
    (Evaluated /\ Follows /\ Reg.old # {})
        => /\ out.rows = {StoredRow(Reg.hb)}
           /\ out.status = StatusOK =>
                /\ out.body.Label = Reg.hb.Label
                /\ out.body.Metadata = Reg.hb.Metadata
                /\ out.body.Expiry.t <= Reg.hb.Expiry.t
                /\ Reg.hb.Expiry.t < out.body.Expiry.t + TicksPerSec
                /\ out.body.Expiry.off = Reg.hb.Expiry.off

\* the first registration gave a label and metadata, the second neither
C5_Witness ==
    /\ variant = "hb" /\ Evaluated /\ Follows
    /\ \E o \in Reg.old : o[1] # "" /\ ~o[2].null /\ o[2].members # <<>>
    /\ out.status = StatusOK
    /\ out.body.Label = "" /\ out.body.Metadata = NilMap

\* C6: in every interleaving of registrations, an identifier has at most one
\* row, and the row is, field for field, the row of the registration that
\* committed last.
C6_LastCommittedWins ==
    \A i \in Ids :
        /\ Cardinality(QueryRow(heartbeats, i)) <= 1
        /\ QueryRow(heartbeats, i) =
              IF regs[i].k = 0 THEN {} ELSE {StoredRow(regs[i].hb)}

\* two registrations of one identifier, in flight together and both
\* committed, the second replacing a row with another label and metadata
C6_Witness ==
    \E i \in Ids :
        /\ \A p \in Procs : pc[p] = "put_write" /\ hb[p].Secret = i
        /\ \E o \in regs[i].old :
              o[1] # regs[i].hb.Label /\ o[2] # Marshal(regs[i].hb.Metadata)

C8_ReadYourWrites ==
    /\ \A p \in Procs :
          (pc[p] \in {"get_now", "hb_now"} /\ gh[p].must
              /\ regs[path[p]].k = gh[p].sk)
              => scan[p] = {StoredRow(regs[path[p]].hb)}
    /\ (Evaluated /\ out.g.must /\ regs[out.path].k = out.g.sk)
          => out.rows = {StoredRow(Reg.hb)}

\* ... while another registration of the identifier is in flight
C8_Witness ==
    /\ Evaluated /\ out.g.must /\ out.status = StatusOK
    /\ \E p \in Procs : pc[p] = "put_exec" /\ hb[p].Secret = out.path

\* C9: handlePutHeartbeat answers 400 without touching the table, goes on to
\* the store only with a decoded body whose secret is non-empty and whose
\* expiry is not zero, and the table changes only in the store step of such
\* a request.
C9_RejectedLeavesStore ==
    [][variant = "hb" =>
        /\ (out'.op = "put" /\ out'.status = StatusBadRequest)
              => heartbeats' = heartbeats
        /\ \A p \in Procs :
              pc'[p] = "put_exec"
                  => (hb'[p].Secret # "" /\ ~IsZero(hb'[p].Expiry))
        /\ heartbeats' # heartbeats
              => \E p \in Procs : pc[p] = "put_exec" /\ pc'[p] = "put_write"]_vars

C9_Witness ==
    /\ out.op = "put" /\ out.status = StatusBadRequest
    /\ out.msg = "Expiry date is required and must be RFC3339 compliant"
    /\ heartbeats # {}

\* C10 (as claimed): a PUT on /hb/{id} registers the heartbeat under the
\* identifier of the path: a GET of that path, after the PUT has committed,
\* with no other registration, and not after the expiry (a whole second),
\* returns that heartbeat.
C10_RegisteredUnderPath ==
    \A i \in Ids :
        (/\ variant = "hb" /\ Evaluated
         /\ regs[i].k > 0 /\ regs[i].k = Commits /\ out.g.k = Commits
         /\ regs[i].path = out.path
         /\ regs[i].hb.Expiry.t % TicksPerSec = 0
         /\ out.at <= regs[i].hb.Expiry.t)
        => /\ out.status = StatusOK
           /\ out.body.Expiry.t = regs[i].hb.Expiry.t
           /\ out.body.Label = regs[i].hb.Label
           /\ out.body.Metadata = regs[i].hb.Metadata

\* C11 (as claimed): every response carries one of the five statuses, and a
\* handler that has written an error status takes no further step of its
\* request.
C11_OneOutcome ==
    /\ out # NoOut =>
          out.status \in {StatusOK, StatusNoContent, StatusBadRequest,
                          StatusNotFound, StatusInternalServerError}
    /\ \A p \in Procs : wrote[p] # 0 => pc[p] = "idle"

\* C12: a step in which the process stops or run starts leaves the table as
\* it was, and an evaluation after a restart, of an identifier whose last
\* registration was committed before it, answers what that registration and
\* the clock reading give: the record, unless it has expired.
C12_RecordsSurviveRestart ==
    /\ [][(runpc' # runpc \/ boots' # boots) => heartbeats' = heartbeats]_vars
    /\ [](Evaluated /\ Follows /\ Reg.boot < boots
            => /\ out.status = EvalOf(Reg, out.at).status
               /\ out.body = EvalOf(Reg, out.at).body)

C12_Witness ==
    /\ Evaluated /\ Follows /\ Reg.boot < boots
    /\ out.status = StatusOK /\ out.body.Secret = Reg.hb.Secret

\* C13 (as claimed): the step a storing request of handleHeartbeat takes
\* after its expiry parameter failed to parse leaves the record of its
\* identifier as it was.
C13_InvalidExpiryWritesNothing ==
    [][\A p \in Procs :
          (pc[p] = "hb_exec" /\ wrote[p] = StatusBadRequest /\ pc'[p] # pc[p])
              => QueryRow(heartbeats', path[p]) = QueryRow(heartbeats, path[p])]_vars

\* C14: a step of an evaluation (its lookup or its answer, whatever the
\* outcome) and a step of the clock leave the table unchanged, and in every
\* step a stored record stays stored, with the same fields unless a
\* registration of the same identifier commits in that step.
C14_EvaluationReadOnly ==
    [][/\ (\E p \in Procs :
              pc'[p] # pc[p] /\ {pc[p], pc'[p]} \cap {"get_now", "hb_now"} # {})
              => heartbeats' = heartbeats
       /\ (out'.op = "get" /\ out' # out) => heartbeats' = heartbeats
       /\ now' # now => heartbeats' = heartbeats
       /\ \A i \in Ids :
              QueryRow(heartbeats, i) # {}
                  => /\ QueryRow(heartbeats', i) # {}
                     /\ QueryRow(heartbeats', i) # QueryRow(heartbeats, i)
                            => regs'[i].k > regs[i].k]_vars

\* an evaluation has answered expired, and the row it read is still stored
C14_Witness ==
    /\ Evaluated /\ out.status = StatusNotFound /\ out.rows # {}
    /\ out.rows \subseteq heartbeats
    /\ out.at = MaxTime

\* C15: a step of a registration, committed or failed, leaves the record of
\* every other identifier unchanged, and the answer of an evaluation is a
\* function of the clock reading and of its own identifier's last
\* registration, whatever was registered or evaluated for the others.
C15_IdentifiersIndependent ==
    /\ [][\A p \in Procs :
              (pc[p] \in {"put_exec", "hb_exec"} /\ pc'[p] # pc[p])
                  => \A i \in Ids \ {hb[p].Secret} :
                        QueryRow(heartbeats', i) = QueryRow(heartbeats, i)]_vars
    /\ [](Evaluated /\ regs[out.path].k = out.g.sk
            => /\ out.status = EvalOf(Reg, out.at).status
               /\ out.body = EvalOf(Reg, out.at).body)

\* a record is returned by an evaluation during which, between its lookup
\* and its answer, the other identifier was registered
C15_Witness ==
    /\ Evaluated /\ out.status = StatusOK
    /\ \E i \in Ids \ {out.path} : regs[i].k > out.g.k

\* C16: an evaluation that read a row answers 404 exactly when its clock
\* reading is strictly after the row's expiry instant; a reading equal to
\* that instant returns the record.
C16_StrictComparison ==
    (Evaluated /\ out.rows # {})
        => LET e == Parse((CHOOSE r \in out.rows : TRUE).expiry).t
           IN  /\ out.at = e => out.status = StatusOK
               /\ out.status = StatusNotFound <=> out.at > e
               /\ out.status \in {StatusOK, StatusNotFound}

C16_Witness ==
    /\ Evaluated /\ out.rows # {} /\ out.status = StatusOK
    /\ out.at = Parse((CHOOSE r \in out.rows : TRUE).expiry).t
    /\ out.body.Expiry.t = out.at

\* C17 (as claimed): a request whose store operation failed is answered
\* with 500.
C17_StoreFailureIs500 ==
    out.dberr => out.status = StatusInternalServerError

\* C18 (as claimed): in the query version a handler runs its store operation
\* on an open handle only, and once run has returned and closed the handle
\* no request is still being handled.
C18_CloseAfterHandlers ==
    /\ [][\A p \in Procs :
              (pc[p] \in {"hb_exec"} /\ pc'[p] # pc[p] /\ runpc' # "exited")
                  => db = "open"]_vars
    /\ [](variant = "query" /\ runpc = "returned" /\ db = "closed"
            => \A p \in Procs : pc[p] = "idle")

\* C19: in the query version, once the signal goroutine has taken a signal,
\* or once the server has failed, run leaves its wait (it returns, unless
\* the process is killed first); when run has returned both goroutines of
\* the group have ended, groupCtx is done and the handle is closed; it has
\* returned nil when the server did not fail, which only a signal brings
\* about, and the server's error when it did.
C19_SignalEndsRun ==
    /\ (gpc.signal = "signalled") ~> (runpc # "wait")
    /\ (externalServer = "failed") ~> (runpc # "wait")
    /\ [](runpc = "returned"
            => /\ db = "closed" /\ groupCtx = "done"
               /\ gpc.server = "done" /\ gpc.signal \in {"signalled", "ended"}
               /\ externalServer # "failed"
                     => (ret = "nil" /\ gpc.signal = "signalled")
               /\ externalServer = "failed" => ret = "server error")

\* run has returned nil on a signal taken while the server was serving
C19_Witness ==
    /\ runpc = "returned" /\ ret = "nil" /\ gpc.signal = "signalled"
    /\ externalServer = "shutdown" /\ gpc.shutdown = "shutting"

\* C20: an evaluation whose lookup ran after the identifier's last
\* registration had been answered as expired answers 404 and returns no
\* record (a registration that commits resets this; the clock only
\* advances).
C20_ExpiredStaysExpired ==
    /\ (Evaluated /\ out.g.dead)
          => (out.status = StatusNotFound /\ out.body = ZeroHeartbeat)
    /\ \A i \in Ids : regs[i].dead => QueryRow(heartbeats, i) # {}

\* ... at a later clock reading than the first expired answer could have had
C20_Witness ==
    /\ Evaluated /\ out.g.dead /\ out.status = StatusNotFound
    /\ out.rows # {} /\ out.at = MaxTime

====
